---- MODULE Spec2Model ----
(***************************************************************************)
(* NC-Code-Analyzer: the line scanner NCAnalyzer.analyze, the aggregation  *)
(* NCAnalyzer.get_global_stats and the limit checker of the App            *)
(* (src/nc_checker_ultimate_v5.py).                                        *)
(*                                                                         *)
(* A line of NC text is a sequence of one-character strings, so that the   *)
(* regular expressions of analyze are modelled by what they match.         *)
(* Numbers (Python floats) are held in tenths: 0.2 is 2, 500 is 5000. The  *)
(* texts of the model carry at most one fractional digit.                  *)
(***************************************************************************)
EXTENDS Integers, Sequences, FiniteSets, TLC

VARIABLES
    blocks,          \* NCAnalyzer.blocks: sequence of BlockData
    current_block,   \* NCAnalyzer.current_block: index into blocks, 0 = None
    nc_lines,        \* analyze: the lines of nc_code the loop has consumed
    machine_type,    \* analyze: its machine_type argument
    has_g50_global,  \* analyze: local latch
    is_rapid_mode,   \* analyze: local motion mode
    pc,              \* "new" (constructed), "scan" (inside analyze), "done"
    carried,         \* ghost: the call of analyze before this one returned
                     \* with its latch set and its mode CUT
    analyzed_blocks, \* App.analyzed_blocks (<<>> while the attribute is absent)
    win,             \* the limit-checker window: open flag and captured stats
    entries,         \* the six Entry fields of the window
    lbl_result       \* the result label of the window

vars == <<blocks, current_block, nc_lines, machine_type, has_g50_global,
          is_rapid_mode, pc, carried, analyzed_blocks, win, entries, lbl_result>>

scanVars == <<blocks, current_block, nc_lines, machine_type, has_g50_global,
              is_rapid_mode, pc, carried>>

appVars == <<analyzed_blocks, win, entries, lbl_result>>

-----------------------------------------------------------------------------
(* Bounds *)

\* longest text, in lines, that analyze scans in Spec
MaxLines == 3

\* most fields of the limit checker the user fills before a check
MaxFilled == 3

-----------------------------------------------------------------------------
(* Characters and strings *)

None == <<>>

Some(v) == <<v>>

Axes == {"X", "Y", "Z"}

AxisOrder == <<"X", "Y", "Z">>

Digits == <<"0", "1", "2", "3", "4", "5", "6", "7", "8", "9">>

IsDigit(c) == \E i \in 1..10 : Digits[i] = c

DigitVal(c) == (CHOOSE i \in 1..10 : Digits[i] = c) - 1

\* \s of the regular expressions, and what str.strip removes
IsSpace(c) == c \in {" ", "\t", "\r"}

LowerCase == <<"a", "b", "c", "d", "e", "f", "g", "h", "i", "j", "k", "l", "m",
               "n", "o", "p", "q", "r", "s", "t", "u", "v", "w", "x", "y", "z">>

UpperCase == <<"A", "B", "C", "D", "E", "F", "G", "H", "I", "J", "K", "L", "M",
               "N", "O", "P", "Q", "R", "S", "T", "U", "V", "W", "X", "Y", "Z">>

UpperChar(c) ==
    IF \E i \in 1..26 : LowerCase[i] = c
    THEN UpperCase[CHOOSE i \in 1..26 : LowerCase[i] = c]
    ELSE c

\* str.upper
upper(s) == [i \in 1..Len(s) |-> UpperChar(s[i])]

\* s[i..j-1], empty when j <= i
Slice(s, i, j) == IF j <= i THEN <<>> ELSE SubSeq(s, i, j - 1)

\* first index >= i whose character is c, or 0
RECURSIVE IndexFrom(_, _, _)
IndexFrom(s, c, i) ==
    IF i > Len(s) THEN 0
    ELSE IF s[i] = c THEN i
    ELSE IndexFrom(s, c, i + 1)

\* first index >= i that does not hold white space (Len(s)+1 when none)
RECURSIVE SkipSpace(_, _)
SkipSpace(s, i) ==
    IF i <= Len(s) /\ IsSpace(s[i]) THEN SkipSpace(s, i + 1) ELSE i

\* first index >= i that does not hold a digit (Len(s)+1 when none)
RECURSIVE SkipDigits(_, _)
SkipDigits(s, i) ==
    IF i <= Len(s) /\ IsDigit(s[i]) THEN SkipDigits(s, i + 1) ELSE i

\* last index <= j that does not hold white space (0 when none)
RECURSIVE LastNonSpace(_, _)
LastNonSpace(s, j) ==
    IF j >= 1 /\ IsSpace(s[j]) THEN LastNonSpace(s, j - 1) ELSE j

\* str.strip
strip(s) == Slice(s, SkipSpace(s, 1), LastNonSpace(s, Len(s)) + 1)

\* str.split(';')[0]
BeforeSemicolon(s) ==
    LET k == IndexFrom(s, ";", 1)
    IN  IF k = 0 THEN s ELSE Slice(s, 1, k)

\* value of a run of digits, int("050") = 50
RECURSIVE NatOf(_)
NatOf(ds) ==
    IF ds = <<>> THEN 0
    ELSE NatOf(Slice(ds, 1, Len(ds))) * 10 + DigitVal(ds[Len(ds)])

\* str(n) for a natural number
RECURSIVE StrOfNat(_)
StrOfNat(n) ==
    IF n < 10 THEN <<Digits[n + 1]>>
    ELSE StrOfNat(n \div 10) \o <<Digits[(n % 10) + 1]>>

\* float(text) in tenths, None when Python raises ValueError: optional
\* surrounding white space, optional sign, digits with at most one point
float(text) ==
    LET t    == strip(text)
        neg  == Len(t) >= 1 /\ t[1] = "-"
        b    == IF Len(t) >= 1 /\ t[1] \in {"-", "+"} THEN 2 ELSE 1
        e1   == SkipDigits(t, b)
        dot  == e1 <= Len(t) /\ t[e1] = "."
        f    == IF dot THEN e1 + 1 ELSE e1
        e2   == SkipDigits(t, f)
        ip   == Slice(t, b, e1)
        fp   == Slice(t, f, e2)
        mag  == NatOf(ip) * 10 + (IF fp = <<>> THEN 0 ELSE DigitVal(fp[1]))
    IN  IF e2 = Len(t) + 1 /\ (ip # <<>> \/ fp # <<>>)
        THEN Some(IF neg THEN 0 - mag ELSE mag)
        ELSE None

\* NCAnalyzer.parse_value
parse_value(text) == float(text)

-----------------------------------------------------------------------------
(* The regular expressions of analyze *)

\* re_comment = \((.*?)\) with search: group 1 of the leftmost match, or None
re_comment_search(s) ==
    LET i == IndexFrom(s, "(", 1)
        j == IF i = 0 THEN 0 ELSE IndexFrom(s, ")", i + 1)
    IN  IF j = 0 THEN None ELSE Some(Slice(s, i + 1, j))

\* end (exclusive) of \d+\.?\d* matched at i, or 0 when s[i] is no digit
NumberEnd(s, i) ==
    IF i > Len(s) \/ ~IsDigit(s[i]) THEN 0
    ELSE LET e1 == SkipDigits(s, i)
         IN  IF e1 <= Len(s) /\ s[e1] = "." THEN SkipDigits(s, e1 + 1) ELSE e1

\* re_g = G(\d+) with findall, each group through int()
RECURSIVE re_g_findall(_, _)
re_g_findall(s, i) ==
    IF i > Len(s) THEN <<>>
    ELSE IF s[i] = "G" /\ i < Len(s) /\ IsDigit(s[i + 1])
         THEN LET e == SkipDigits(s, i + 1)
              IN  <<NatOf(Slice(s, i + 1, e))>> \o re_g_findall(s, e)
         ELSE re_g_findall(s, i + 1)

\* re_coord = ([XYZ])\s*([-]?\d+\.?\d*) with findall: pairs <<axis, val_str>>
RECURSIVE re_coord_findall(_, _)
re_coord_findall(s, i) ==
    IF i > Len(s) THEN <<>>
    ELSE LET j == SkipSpace(s, i + 1)
             k == IF j <= Len(s) /\ s[j] = "-" THEN j + 1 ELSE j
             e == NumberEnd(s, k)
         IN  IF s[i] \in Axes /\ e # 0
             THEN <<<<s[i], Slice(s, j, e)>>>> \o re_coord_findall(s, e)
             ELSE re_coord_findall(s, i + 1)

\* re_s = S\s*(\d+) with search: group 1 of the leftmost match, or None
RECURSIVE re_s_search(_, _)
re_s_search(s, i) ==
    IF i > Len(s) THEN None
    ELSE LET j == SkipSpace(s, i + 1)
         IN  IF s[i] = "S" /\ j <= Len(s) /\ IsDigit(s[j])
             THEN Some(Slice(s, j, SkipDigits(s, j)))
             ELSE re_s_search(s, i + 1)

\* re_f = F\s*(\d+\.?\d*) with search: group 1 of the leftmost match, or None
RECURSIVE re_f_search(_, _)
re_f_search(s, i) ==
    IF i > Len(s) THEN None
    ELSE LET j == SkipSpace(s, i + 1)
             e == NumberEnd(s, j)
         IN  IF s[i] = "F" /\ e # 0
             THEN Some(Slice(s, j, e))
             ELSE re_f_search(s, i + 1)

-----------------------------------------------------------------------------
(* BlockData *)

HeaderName == <<"H", "e", "a", "d", "e", "r", " ", "/", " ", "S", "e", "t", "u", "p">>

\* f"Line{line_num}: {block_name}"
BlockName(line_num, block_name) ==
    <<"L", "i", "n", "e">> \o StrOfNat(line_num) \o <<":", " ">> \o block_name

\* f"[Line {line_num}] ..." (the message text is constant)
ErrorMessage(line_num) == [line |-> line_num, msg |-> "G96 used without G50"]

\* BlockData.__init__
BlockData(name) ==
    [name   |-> name,
     rapid  |-> [a \in Axes |-> <<>>],
     cut    |-> [a \in Axes |-> <<>>],
     s_vals |-> <<>>,
     f_vals |-> <<>>,
     errors |-> <<>>]

\* BlockData.add_val
add_val(blk, axis, val, is_rapid) ==
    IF is_rapid
    THEN IF axis \in DOMAIN blk.rapid
         THEN [blk EXCEPT !.rapid[axis] = Append(@, val)] ELSE blk
    ELSE IF axis \in DOMAIN blk.cut
         THEN [blk EXCEPT !.cut[axis] = Append(@, val)] ELSE blk

SeqRange(q) == {q[i] : i \in 1..Len(q)}

MinOf(S) == CHOOSE m \in S : \A x \in S : m <= x

MaxOf(S) == CHOOSE m \in S : \A x \in S : m >= x

-----------------------------------------------------------------------------
(* The texts the model scans *)

Machines == {"FANUC_Lathe", "OSP_Mill"}

L_empty == <<>>

L_rapid == <<"G", "0", " ", "X", "1", "0", " ", "Y", "5">>

L_cut == <<"G", "1", " ", "X", "2", "0", " ", "Z", "-", "3">>

L_facing == <<"(", "F", "a", "c", "i", "n", "g", ")", " ", "G", "9", "6", " ", "S", "5", "0", "0", " ", "F", "0", ".", "2">>

L_g50 == <<"G", "5", "0", " ", "S", "2", "0", "0", "0">>

L_tie_rc == <<"G", "0", "0", " ", "X", "1", " ", "G", "0", "1", " ", "Z", "2">>

L_tie_cr == <<"G", "3", " ", "X", "4", " ", "G", "0", " ", "Y", "2">>

L_s == <<"S", "1", "2", "0", "0">>

L_incmt == <<"(", "G", "1", " ", "X", "5", " ", "S", "3", ")">>

L_incmt50 == <<"(", "g", "5", "0", " ", "f", "1", ".", "5", ")">>

L_semi == <<" ", ";", "(", "B", ")", " ", "G", "5", "0", " ", "X", "9">>

L_tail == <<"X", "7", ".", "5", " ", ";", " ", "(", "T", ")", " ", "G", "5", "0">>

L_junk == <<"M", "3", "0", " ", "X", " ", "Y", "-", " ", "(", "U">>

\* the lines analyze is given in Spec
Lines == {L_empty, L_rapid, L_cut, L_facing, L_g50, L_tie_rc, L_tie_cr,
          L_s, L_incmt, L_incmt50, L_semi, L_tail, L_junk}

A1 == <<"G", "0", " ", "X", "3", " ", "Y", "7">>

A2 == <<"G", "1", " ", "X", "7", " ", "Z", "-", "5">>

B1 == <<" ", "X", "5">>

B2 == <<"(", "P", ")", " ", "Y", "1", "2", ".", "5", " ", "F", "2", " ">>

\* the texts of the input widget in AppSpec, each a sequence of lines
AppTexts == {<<A1, A2>>, <<L_empty, B1, B2, L_empty>>, <<L_s, L_facing>>}

\* str.strip of a whole text held as lines: blank lines at both ends go, and
\* so does the white space before the first and after the last character
RECURSIVE DropBlankHead(_)
DropBlankHead(ls) ==
    IF ls # <<>> /\ strip(ls[1]) = <<>> THEN DropBlankHead(Tail(ls)) ELSE ls

RECURSIVE DropBlankTail(_)
DropBlankTail(ls) ==
    IF ls # <<>> /\ strip(ls[Len(ls)]) = <<>>
    THEN DropBlankTail(Slice(ls, 1, Len(ls))) ELSE ls

StripText(ls) ==
    LET core == DropBlankTail(DropBlankHead(ls))
        n    == Len(core)
    IN  IF n = 0 THEN <<L_empty>>
        ELSE IF n = 1 THEN <<strip(core[1])>>
        ELSE [i \in 1..n |->
                IF i = 1 THEN Slice(core[1], SkipSpace(core[1], 1), Len(core[1]) + 1)
                ELSE IF i = n THEN Slice(core[n], 1, LastNonSpace(core[n], Len(core[n])) + 1)
                ELSE core[i]]

AllLines ==
    Lines \cup UNION {SeqRange(t) \cup SeqRange(StripText(t)) : t \in AppTexts}

-----------------------------------------------------------------------------
(* NCAnalyzer.analyze, one iteration of its loop *)

\* line.split(';')[0].strip()
line_content(line) == strip(BeforeSemicolon(line))

\* s without its first parenthesized comment
WithoutComment(s) ==
    LET i == IndexFrom(s, "(", 1)
        j == IF i = 0 THEN 0 ELSE IndexFrom(s, ")", i + 1)
    IN  IF j = 0 THEN s ELSE Slice(s, 1, i) \o <<" ">> \o Slice(s, j + 1, Len(s) + 1)

\* mutant of LineTokens: the comment is cut out of the scanned content
LineTokensNoComment(line) ==
    LET content == upper(strip(WithoutComment(line_content(line))))
    IN  [skip          |-> line_content(line) = <<>>,
         comment_match |-> re_comment_search(line),
         g_codes       |-> re_g_findall(content, 1),
         coords        |-> re_coord_findall(content, 1),
         s_match       |-> re_s_search(content, 1),
         f_match       |-> re_f_search(content, 1)]

\* what the five regular expressions extract from one line
LineTokens(line) ==
    LET content == upper(line_content(line))
    IN  [skip          |-> line_content(line) = <<>>,
         comment_match |-> re_comment_search(line),
         g_codes       |-> re_g_findall(content, 1),
         coords        |-> re_coord_findall(content, 1),
         s_match       |-> re_s_search(content, 1),
         f_match       |-> re_f_search(content, 1)]

\* the extraction of every line of the model, computed once
TokenTable == [l \in AllLines |-> LineTokens(l)]

\* g_codes of the line
g_codes(line) == TokenTable[line].g_codes

\* mutant of ModeUpdate: the two checks in the other order, G0 wins
ModeUpdateRapidLast(is_rapid, g) ==
    LET afterCut == IF \E c \in SeqRange(g) : c \in {1, 2, 3} THEN FALSE ELSE is_rapid
    IN  IF 0 \in SeqRange(g) THEN TRUE ELSE afterCut

\* mutant of ModeUpdate: the mode is not modal, a line without G1/G2/G3 is rapid
ModeUpdateNonModal(is_rapid, g) ==
    IF \E c \in SeqRange(g) : c \in {1, 2, 3} THEN FALSE ELSE TRUE

\* the mode after the two checks on g_codes
ModeUpdate(is_rapid, g) ==
    LET afterRapid == IF 0 \in SeqRange(g) THEN TRUE ELSE is_rapid
    IN  IF \E c \in SeqRange(g) : c \in {1, 2, 3} THEN FALSE ELSE afterRapid

\* mutant of BlockSwitch: the new block takes the place of the list
BlockSwitchReplace(st, line, line_num) ==
    LET comment_match == TokenTable[line].comment_match
    IN  IF comment_match # None
        THEN [st EXCEPT
                 !.blocks = <<BlockData(BlockName(line_num, strip(comment_match[1])))>>,
                 !.current_block = 1]
        ELSE st

\* the block switch: a new block when the original line holds a comment
BlockSwitch(st, line, line_num) ==
    LET comment_match == TokenTable[line].comment_match
    IN  IF comment_match # None
        THEN [st EXCEPT
                 !.blocks = Append(@, BlockData(BlockName(line_num, strip(comment_match[1])))),
                 !.current_block = Len(st.blocks) + 1]
        ELSE st

\* the loop over coords: every parsed value goes to the current block
RECURSIVE AddCoords(_, _, _)
AddCoords(blk, coords, is_rapid) ==
    IF coords = <<>> THEN blk
    ELSE LET val == parse_value(coords[1][2])
             nxt == IF val # None THEN add_val(blk, coords[1][1], val[1], is_rapid)
                    ELSE blk
         IN  AddCoords(nxt, Tail(coords), is_rapid)

\* the S and F samples of the line
AddSF(blk, s_match, f_match) ==
    LET b1 == IF s_match # None
              THEN [blk EXCEPT !.s_vals = Append(@, float(s_match[1])[1])] ELSE blk
    IN  IF f_match # None
        THEN [b1 EXCEPT !.f_vals = Append(@, float(f_match[1])[1])] ELSE b1

\* mutant of LatchUpdate: the flag is set per line, it does not latch
LatchUpdatePerLine(latch, g, machine) ==
    machine = "FANUC_Lathe" /\ 50 \in SeqRange(g)

\* the latch after the line
LatchUpdate(latch, g, machine) ==
    IF machine = "FANUC_Lathe" /\ 50 \in SeqRange(g) THEN TRUE ELSE latch

\* the safety check of the line, with the latch already updated
SafetyCheck(blk, g, latch, machine, line_num) ==
    IF machine = "FANUC_Lathe" /\ 96 \in SeqRange(g) /\ ~latch
    THEN [blk EXCEPT !.errors = Append(@, ErrorMessage(line_num))]
    ELSE blk

\* mutant of LineStep: the block switch comes after the extraction
LineStepSwitchLast(st, line, line_num, machine) ==
    LET t == TokenTable[line]
    IN  IF t.skip THEN st
        ELSE LET mode  == ModeUpdate(st.is_rapid_mode, t.g_codes)
                 latch == LatchUpdate(st.has_g50_global, t.g_codes, machine)
                 cur   == st.current_block
                 b1    == AddCoords(st.blocks[cur], t.coords, mode)
                 b2    == AddSF(b1, t.s_match, t.f_match)
                 b3    == SafetyCheck(b2, t.g_codes, latch, machine, line_num)
                 st1   == BlockSwitch([st EXCEPT !.blocks[cur] = b3], line, line_num)
             IN  [blocks         |-> st1.blocks,
                  current_block  |-> st1.current_block,
                  has_g50_global |-> latch,
                  is_rapid_mode  |-> mode]

\* the body of `for i, line in enumerate(lines)` on the scan state st
LineStep(st, line, line_num, machine) ==
    LET t == TokenTable[line]
    IN  IF t.skip THEN st
        ELSE LET st1   == BlockSwitch(st, line, line_num)
                 mode  == ModeUpdate(st.is_rapid_mode, t.g_codes)
                 latch == LatchUpdate(st.has_g50_global, t.g_codes, machine)
                 cur   == st1.current_block
                 b1    == AddCoords(st1.blocks[cur], t.coords, mode)
                 b2    == AddSF(b1, t.s_match, t.f_match)
                 b3    == SafetyCheck(b2, t.g_codes, latch, machine, line_num)
             IN  [blocks         |-> [st1.blocks EXCEPT ![cur] = b3],
                  current_block  |-> cur,
                  has_g50_global |-> latch,
                  is_rapid_mode  |-> mode]

\* NCAnalyzer.__init__: the analyzer as constructed
NewAnalyzer == [blocks |-> <<>>, current_block |-> 0]

\* mutant of reset: the analyzer keeps what it holds
resetKeep(self) == self

\* NCAnalyzer.reset
reset(self) == [blocks |-> <<>>, current_block |-> 0]

\* analyze before its loop: reset, the header block, the two locals
AnalyzeStart(self) ==
    LET r == reset(self)
    IN  [blocks         |-> Append(r.blocks, BlockData(HeaderName)),
         current_block  |-> Len(r.blocks) + 1,
         has_g50_global |-> FALSE,
         is_rapid_mode  |-> TRUE]

\* the scan state after the first n lines of a text
RECURSIVE ScanPrefix(_, _, _, _)
ScanPrefix(self, lines, n, machine) ==
    IF n = 0 THEN AnalyzeStart(self)
    ELSE LineStep(ScanPrefix(self, lines, n - 1, machine), lines[n], n, machine)

\* NCAnalyzer.analyze as a whole, on the lines of nc_code.split('\n')
analyze(self, lines, machine) == ScanPrefix(self, lines, Len(lines), machine)

\* NCAnalyzer.get_global_stats, the three axis entries of its result
get_global_stats(blks) ==
    LET RECURSIVE Collect(_, _)
        Collect(ax, i) ==
            IF i > Len(blks) THEN <<>>
            ELSE blks[i].rapid[ax] \o blks[i].cut[ax] \o Collect(ax, i + 1)
    IN  [key \in Axes |->
            LET vals == Collect(key, 1)
            IN  IF vals # <<>>
                THEN <<Some(MinOf(SeqRange(vals))), Some(MaxOf(SeqRange(vals)))>>
                ELSE <<None, None>>]

-----------------------------------------------------------------------------
(* The limit checker of App.open_limit_checker *)

\* what the user may have typed into one Entry: nothing, text that is no
\* number, a number
BoundTexts == {<<>>, <<"a", "b", "c">>, <<"5">>}

\* the fields of one axis that hold text
Filled(e) == (IF e.min # <<>> THEN 1 ELSE 0) + (IF e.max # <<>> THEN 1 ELSE 0)

\* the contents of the six fields at a press of the button
EntrySets ==
    {ents \in [Axes -> [min : BoundTexts, max : BoundTexts]] :
        Filled(ents["X"]) + Filled(ents["Y"]) + Filled(ents["Z"]) <= MaxFilled}

\* float() of each text a field may hold, computed once
FieldValue == [t \in BoundTexts |-> float(t)]

EmptyEntries == [a \in Axes |-> [min |-> <<>>, max |-> <<>>]]

Waiting == [state |-> "WAITING", results |-> <<>>]

\* one line of the violation text: axis, kind, observed value, the limit typed
Violation(axis, kind, observed, limit) ==
    [axis |-> axis, kind |-> kind, observed |-> observed, limit |-> limit]

\* results.append(...) together with safe = False
Record(acc, v) == [results |-> Append(acc.results, v), safe |-> FALSE]

\* mutant of CheckAxis: the comparisons are not strict
CheckAxisNonStrict(acc, stats, ents, axis) ==
    LET p_min == stats[axis][1]
        p_max == stats[axis][2]
        u_min == ents[axis].min
        u_max == ents[axis].max
        a1 == IF u_min # <<>> /\ FieldValue[u_min] # None /\ p_min[1] <= FieldValue[u_min][1]
              THEN Record(acc, Violation(axis, "Min", p_min[1], u_min))
              ELSE acc
    IN  IF p_min = None THEN acc
        ELSE IF u_max # <<>> /\ FieldValue[u_max] # None /\ p_max[1] >= FieldValue[u_max][1]
             THEN Record(a1, Violation(axis, "Max", p_max[1], u_max))
             ELSE a1

\* the body of `for axis in ["X", "Y", "Z"]` of check, on results and safe;
\* a field whose float() raises is passed over
CheckAxis(acc, stats, ents, axis) ==
    LET p_min == stats[axis][1]
        p_max == stats[axis][2]
        u_min == ents[axis].min
        u_max == ents[axis].max
        a1 == IF u_min # <<>> /\ FieldValue[u_min] # None /\ p_min[1] < FieldValue[u_min][1]
              THEN Record(acc, Violation(axis, "Min", p_min[1], u_min))
              ELSE acc
    IN  IF p_min = None THEN acc
        ELSE IF u_max # <<>> /\ FieldValue[u_max] # None /\ p_max[1] > FieldValue[u_max][1]
             THEN Record(a1, Violation(axis, "Max", p_max[1], u_max))
             ELSE a1

RECURSIVE CheckLoop(_, _, _, _)
CheckLoop(acc, stats, ents, i) ==
    IF i > Len(AxisOrder) THEN acc
    ELSE CheckLoop(CheckAxis(acc, stats, ents, AxisOrder[i]), stats, ents, i + 1)

\* the label chosen from safe and results
ResultLabel(safe, results) ==
    IF safe /\ results = <<>> THEN [state |-> "SAFE", results |-> <<>>]
    ELSE IF safe THEN [state |-> "NO-CONSTRAINTS", results |-> <<>>]
    ELSE [state |-> "VIOLATION", results |-> results]

\* check, the callback of the button
check(stats, ents) ==
    LET acc == CheckLoop([results |-> <<>>, safe |-> TRUE], stats, ents, 1)
    IN  ResultLabel(acc.safe, acc.results)

-----------------------------------------------------------------------------
(* State machine *)

Init ==
    /\ blocks = NewAnalyzer.blocks
    /\ current_block = NewAnalyzer.current_block
    /\ nc_lines = <<>>
    /\ machine_type = "FANUC_Lathe"
    /\ has_g50_global = FALSE
    /\ is_rapid_mode = TRUE
    /\ pc = "new"
    /\ carried = FALSE
    /\ analyzed_blocks = <<>>
    /\ win = [open |-> FALSE, stats |-> [a \in Axes |-> <<None, None>>]]
    /\ entries = EmptyEntries
    /\ lbl_result = Waiting

ScanState ==
    [blocks         |-> blocks,
     current_block  |-> current_block,
     has_g50_global |-> has_g50_global,
     is_rapid_mode  |-> is_rapid_mode]

SetScanState(st) ==
    /\ blocks' = st.blocks
    /\ current_block' = st.current_block
    /\ has_g50_global' = st.has_g50_global
    /\ is_rapid_mode' = st.is_rapid_mode

\* analyze is entered: reset, header block, locals
AnalyzeEnter(machine) ==
    /\ pc \in {"new", "done"}
    /\ SetScanState(AnalyzeStart([blocks |-> blocks, current_block |-> current_block]))
    /\ nc_lines' = <<>>
    /\ machine_type' = machine
    /\ pc' = "scan"
    /\ carried' = (pc = "done" /\ has_g50_global /\ ~is_rapid_mode)
    /\ UNCHANGED appVars

\* one iteration of the loop of analyze, on the next line of the text
ScanLine(line) ==
    /\ pc = "scan"
    /\ Len(nc_lines) < MaxLines
    /\ SetScanState(LineStep(ScanState, line, Len(nc_lines) + 1, machine_type))
    /\ nc_lines' = Append(nc_lines, line)
    /\ UNCHANGED <<machine_type, pc, carried>>
    /\ UNCHANGED appVars

\* the loop of analyze ends (split yields at least one line) and it returns
AnalyzeReturn ==
    /\ pc = "scan"
    /\ Len(nc_lines) >= 1
    /\ pc' = "done"
    /\ UNCHANGED <<blocks, current_block, nc_lines, machine_type,
                   has_g50_global, is_rapid_mode, carried>>
    /\ UNCHANGED appVars

Next ==
    \/ \E machine \in Machines : AnalyzeEnter(machine)
    \/ \E line \in Lines : ScanLine(line)
    \/ AnalyzeReturn

Spec == Init /\ [][Next]_vars

\* App.run_analysis: the text of the input widget, stripped, is analysed
run_analysis(code, machine) ==
    /\ pc \in {"new", "done"}
    /\ LET lines == StripText(code)
           st    == analyze([blocks |-> blocks, current_block |-> current_block],
                            lines, machine)
       IN  /\ SetScanState(st)
           /\ nc_lines' = lines
           /\ analyzed_blocks' = st.blocks
    /\ machine_type' = machine
    /\ pc' = "done"
    /\ UNCHANGED <<carried, win, entries, lbl_result>>

\* App.open_limit_checker: the stats are read once, when the window opens
open_limit_checker ==
    /\ analyzed_blocks # <<>>
    /\ win' = [open |-> TRUE, stats |-> get_global_stats(blocks)]
    /\ entries' = EmptyEntries
    /\ lbl_result' = Waiting
    /\ UNCHANGED scanVars
    /\ UNCHANGED analyzed_blocks

\* the user fills the six fields and presses the button that runs check
press_check(ents) ==
    /\ win.open
    /\ entries' = ents
    /\ lbl_result' = check(win.stats, ents)
    /\ UNCHANGED scanVars
    /\ UNCHANGED <<analyzed_blocks, win>>

AppNext ==
    \/ \E code \in AppTexts, machine \in Machines : run_analysis(code, machine)
    \/ open_limit_checker
    \/ \E ents \in EntrySets : press_check(ents)

AppSpec == Init /\ [][AppNext]_vars

-----------------------------------------------------------------------------
(* Properties of the scan (Spec) *)

\* the line carries a G-code of the set S in its scanned content
Carries(line, S) == \E c \in SeqRange(g_codes(line)) : c \in S

Skipped(line) == TokenTable[line].skip

HasComment(line) == TokenTable[line].comment_match # None

\* the values of the coordinates of one axis among extracted pairs, in order
RECURSIVE AxisValues(_, _)
AxisValues(coords, axis) ==
    IF coords = <<>> THEN <<>>
    ELSE (IF coords[1][1] = axis THEN <<float(coords[1][2])[1]>> ELSE <<>>)
         \o AxisValues(Tail(coords), axis)

LineValues(line, axis) == AxisValues(TokenTable[line].coords, axis)

\* the errors of all blocks that cite line n
ErrorsAt(n) ==
    {<<i, k>> \in {<<i, k>> \in (1..Len(blocks)) \X (1..MaxLines + 1) :
                      k <= Len(blocks[i].errors)} :
        blocks[i].errors[k].line = n}

AllErrorLines ==
    UNION {{blocks[i].errors[k].line : k \in 1..Len(blocks[i].errors)} :
              i \in 1..Len(blocks)}

\* a G50 on a non-skipped line among the first n lines
G50UpTo(n) ==
    \E m \in 1..n : ~Skipped(nc_lines[m]) /\ Carries(nc_lines[m], {50})

\* a step of the loop of analyze, and the line it scans
IsScanStep == pc = "scan" /\ pc' = "scan" /\ Len(nc_lines') = Len(nc_lines) + 1

ScannedLine == nc_lines'[Len(nc_lines')]

OpensBlock == Len(blocks') = Len(blocks) + 1

\* the block that receives the samples of the step, as it was before them
BaseBlock ==
    IF OpensBlock THEN BlockData(blocks'[Len(blocks')].name)
    ELSE blocks[current_block]

CurrentAfter == blocks'[current_block']

\* C1: a G96-without-G50 error cites line n exactly when the profile is
\* FANUC_Lathe, line n is not skipped and carries G96, and no non-skipped
\* line up to and including n carries G50; there is one such error at most,
\* and none under another profile or after a G50.
C1_G96ErrorExactly ==
    pc \in {"scan", "done"} =>
        /\ AllErrorLines \subseteq 1..Len(nc_lines)
        /\ \A n \in 1..Len(nc_lines) :
              Cardinality(ErrorsAt(n)) =
                 IF /\ machine_type = "FANUC_Lathe"
                    /\ ~Skipped(nc_lines[n])
                    /\ Carries(nc_lines[n], {96})
                    /\ ~G50UpTo(n)
                 THEN 1 ELSE 0

\* a G96 before the G50 has its error, the G96 lines after the G50 have none
C1_Witness ==
    /\ pc = "done"
    /\ machine_type = "FANUC_Lathe"
    /\ Len(nc_lines) = 3
    /\ Carries(nc_lines[1], {96}) /\ nc_lines[2] = L_g50
    /\ Carries(nc_lines[3], {96})
    /\ AllErrorLines = {1}

\* C2: a line that carries both G0 and one of G1/G2/G3 leaves the mode CUT,
\* and all its coordinates go to the cut samples of the current block, none
\* to its rapid samples, whatever the mode was before.
C2_TieBreakCut ==
    [][(IsScanStep /\ ~Skipped(ScannedLine)
          /\ Carries(ScannedLine, {0}) /\ Carries(ScannedLine, {1, 2, 3}))
       => /\ is_rapid_mode' = FALSE
          /\ \A a \in Axes :
                /\ CurrentAfter.rapid[a] = BaseBlock.rapid[a]
                /\ CurrentAfter.cut[a] = BaseBlock.cut[a] \o LineValues(ScannedLine, a)]_vars

\* after a rapid line, a line with G3 before G0 has put its X and Y into cut
C2_Witness ==
    /\ pc = "scan"
    /\ nc_lines = <<L_rapid, L_tie_cr>>
    /\ ~is_rapid_mode
    /\ blocks[1].cut["X"] = <<40>> /\ blocks[1].cut["Y"] = <<20>>
    /\ blocks[1].rapid["X"] = <<100>>

\* C3: a non-skipped line with a comment and coordinate, S, F or G96 tokens
\* appends the block "Line<N>: <comment>" and makes it current; the samples
\* and the error of the line are in that block, and the blocks that were
\* there before the line are unchanged.
C3_NewBlockFirst ==
    [][(IsScanStep /\ ~Skipped(ScannedLine) /\ HasComment(ScannedLine))
       => LET t == TokenTable[ScannedLine]
              n == Len(nc_lines')
              new == blocks'[Len(blocks')]
          IN  /\ OpensBlock
              /\ current_block' = Len(blocks')
              /\ \A i \in 1..Len(blocks) : blocks'[i] = blocks[i]
              /\ new.name = <<"L", "i", "n", "e">> \o StrOfNat(n) \o <<":", " ">>
                               \o strip(t.comment_match[1])
              /\ \A a \in Axes :
                    new.rapid[a] \o new.cut[a] = LineValues(ScannedLine, a)
              /\ new.s_vals = (IF t.s_match = None THEN <<>>
                               ELSE <<float(t.s_match[1])[1]>>)
              /\ new.f_vals = (IF t.f_match = None THEN <<>>
                               ELSE <<float(t.f_match[1])[1]>>)
              /\ new.errors = (IF /\ machine_type = "FANUC_Lathe"
                                  /\ Carries(ScannedLine, {96})
                                  /\ \A m \in 1..n : ~Carries(nc_lines'[m], {50})
                               THEN <<[line |-> n, msg |-> "G96 used without G50"]>>
                               ELSE <<>>)]_vars

\* the example of the specification: G0 X10 Y5 / G1 X20 Z-3 /
\* (Facing) G96 S500 F0.2 under the lathe profile
C3_Witness ==
    /\ pc = "done"
    /\ machine_type = "FANUC_Lathe"
    /\ nc_lines = <<L_rapid, L_cut, L_facing>>
    /\ Len(blocks) = 2
    /\ blocks[1].name = HeaderName
    /\ blocks[1].rapid["X"] = <<100>> /\ blocks[1].rapid["Y"] = <<50>>
    /\ blocks[1].cut["X"] = <<200>> /\ blocks[1].cut["Z"] = <<-30>>
    /\ blocks[1].s_vals = <<>> /\ blocks[1].f_vals = <<>> /\ blocks[1].errors = <<>>
    /\ blocks[2].name = <<"L", "i", "n", "e", "3", ":", " ", "F", "a", "c", "i", "n", "g">>
    /\ blocks[2].s_vals = <<5000>> /\ blocks[2].f_vals = <<2>>
    /\ Len(blocks[2].errors) = 1 /\ blocks[2].errors[1].line = 3

\* C4: the mode starts RAPID, changes only on a line that carries G0 or
\* G1/G2/G3 and survives every other line and the start of a block; the
\* coordinates of a line go to exactly one of rapid and cut of the block
\* current at the line, chosen by the mode after the line's mode update.
C4_ModalMode ==
    [][/\ (pc # "scan" /\ pc' = "scan") => is_rapid_mode' = TRUE
       /\ IsScanStep =>
            /\ ~Carries(ScannedLine, {0, 1, 2, 3}) => is_rapid_mode' = is_rapid_mode
            /\ Skipped(ScannedLine) => blocks' = blocks
            /\ ~Skipped(ScannedLine) =>
                 \A a \in Axes :
                    IF is_rapid_mode'
                    THEN /\ CurrentAfter.rapid[a] = BaseBlock.rapid[a] \o LineValues(ScannedLine, a)
                         /\ CurrentAfter.cut[a] = BaseBlock.cut[a]
                    ELSE /\ CurrentAfter.cut[a] = BaseBlock.cut[a] \o LineValues(ScannedLine, a)
                         /\ CurrentAfter.rapid[a] = BaseBlock.rapid[a]]_vars

\* CUT set by G1 survives a line with only S1200 and the start of a block:
\* the X7.5 of the third line, which opens block 2, is a cut sample
C4_Witness ==
    /\ pc = "scan"
    /\ nc_lines = <<L_cut, L_s, L_tail>>
    /\ ~is_rapid_mode
    /\ Len(blocks) = 2
    /\ blocks[2].cut["X"] = <<75>> /\ blocks[2].rapid["X"] = <<>>

HeaderFirst == pc # "new" => (Len(blocks) >= 1 /\ blocks[1].name = HeaderName)

\* C5: once analyze has been called the program is never empty and its first
\* block is "Header / Setup", in every state of the scan, for every text and
\* profile; during a scan blocks are only appended: none is removed or
\* moved, and only the current (last) block changes.
C5_HeaderAlways ==
    [][/\ HeaderFirst'
       /\ (pc = "scan" /\ pc' = "scan") =>
            /\ Len(blocks') >= Len(blocks)
            /\ \A i \in 1..Len(blocks) : blocks'[i].name = blocks[i].name
            /\ \A i \in 1..(Len(blocks) - 1) : blocks'[i] = blocks[i]]_vars

\* a text of a skipped line, unparseable tokens and a comment: the header
\* block is there, and empty, before the block of the comment
C5_Witness ==
    /\ pc = "done"
    /\ nc_lines = <<L_empty, L_junk, L_incmt>>
    /\ Len(blocks) = 2
    /\ blocks[1] = BlockData(HeaderName)

\* C9: the scan state of a call of analyze, and the program and the global
\* stats it returns, are those a newly constructed analyzer gives for the
\* same lines and profile: nothing of an earlier call is left.
C9_FreshRun ==
    /\ pc = "scan" =>
          ScanState = ScanPrefix(NewAnalyzer, nc_lines, Len(nc_lines), machine_type)
    /\ pc = "done" =>
          /\ blocks = analyze(NewAnalyzer, nc_lines, machine_type).blocks
          /\ get_global_stats(blocks) =
                get_global_stats(analyze(NewAnalyzer, nc_lines, machine_type).blocks)

\* the call before left the latch set and the mode CUT; this call has its
\* G96 error all the same and has stored a coordinate as rapid
C9_Witness ==
    /\ pc = "done"
    /\ carried
    /\ machine_type = "FANUC_Lathe"
    /\ AllErrorLines # {}
    /\ \E a \in Axes : blocks[1].rapid[a] # <<>>

\* the comment of the scanned line lies in the scanned content (before ';')
CommentScanned(line) ==
    LET semi == IndexFrom(line, ";", 1)
        close == IndexFrom(line, ")", IndexFrom(line, "(", 1) + 1)
    IN  HasComment(line) /\ (semi = 0 \/ close < semi)

\* what the expressions extract from the text between the parentheses
\* alone, and the first S and F of the text before them
InnerTokens ==
    [l \in {x \in Lines : HasComment(x)} |->
        LET in == upper(TokenTable[l].comment_match[1])
            before == upper(Slice(l, 1, IndexFrom(l, "(", 1)))
        IN  [g_codes  |-> SeqRange(re_g_findall(in, 1)),
             coords   |-> re_coord_findall(in, 1),
             s_match  |-> re_s_search(in, 1),
             f_match  |-> re_f_search(in, 1),
             s_before |-> re_s_search(before, 1),
             f_before |-> re_f_search(before, 1)]]

\* C10: only the suffix from ';' is cut before extraction. On a non-skipped
\* line the tokens inside the parentheses of a comment of the scanned
\* content count like the others: their G-codes set mode and latch, their
\* coordinates, S and F are samples of the block the comment opens. A line
\* that is blank before ';' is skipped and its comment opens no block.
C10_CommentTextScanned ==
    [][IsScanStep =>
        /\ (Skipped(ScannedLine) /\ HasComment(ScannedLine)) =>
              (blocks' = blocks /\ current_block' = current_block)
        /\ (~Skipped(ScannedLine) /\ CommentScanned(ScannedLine)) =>
              LET in  == InnerTokens[ScannedLine]
                  g   == in.g_codes
                  new == blocks'[Len(blocks')]
              IN  /\ OpensBlock
                  /\ g \subseteq SeqRange(g_codes(ScannedLine))
                  /\ (g \cap {1, 2, 3} # {}) => ~is_rapid_mode'
                  /\ (0 \in g /\ ~Carries(ScannedLine, {1, 2, 3})) => is_rapid_mode'
                  /\ (50 \in g /\ machine_type = "FANUC_Lathe") => has_g50_global'
                  /\ \A a \in Axes :
                        SeqRange(AxisValues(in.coords, a))
                           \subseteq SeqRange(new.rapid[a] \o new.cut[a])
                  /\ (in.s_match # None /\ in.s_before = None) =>
                        new.s_vals = <<float(in.s_match[1])[1]>>
                  /\ (in.f_match # None /\ in.f_before = None) =>
                        new.f_vals = <<float(in.f_match[1])[1]>>]_vars

\* " ;(B) G50 X9" has opened no block and set no latch; "(g50 f1.5)" has
\* set the latch and given F; "(G1 X5 S3)" has set CUT and given X and S
C10_Witness ==
    /\ pc = "scan"
    /\ machine_type = "FANUC_Lathe"
    /\ nc_lines = <<L_semi, L_incmt50, L_incmt>>
    /\ Len(blocks) = 3
    /\ has_g50_global /\ ~is_rapid_mode
    /\ blocks[2].f_vals = <<15>>
    /\ blocks[3].cut["X"] = <<50>> /\ blocks[3].s_vals = <<30>>

-----------------------------------------------------------------------------
(* Properties of the limit checker (AppSpec) *)

Supplied(t) == t # <<>>

AnySupplied(ents) == \E a \in Axes : Supplied(ents[a].min) \/ Supplied(ents[a].max)

\* the bounds that fail: the axis has samples, the field holds a number, and
\* the number is above the observed minimum or below the observed maximum
FailingBounds(stats, ents) ==
    {<<a, "Min">> : a \in {x \in Axes :
        /\ stats[x][1] # None
        /\ Supplied(ents[x].min) /\ float(ents[x].min) # None
        /\ float(ents[x].min)[1] > stats[x][1][1]}}
    \cup
    {<<a, "Max">> : a \in {x \in Axes :
        /\ stats[x][2] # None
        /\ Supplied(ents[x].max) /\ float(ents[x].max) # None
        /\ float(ents[x].max)[1] < stats[x][2][1]}}

Checked == win.open /\ lbl_result.state # "WAITING"

\* C6: with no bound in any field the check reports NO-CONSTRAINTS, not
\* SAFE; SAFE needs at least one supplied bound, and every one satisfied.
C6_NoConstraintsState ==
    Checked =>
        /\ ~AnySupplied(entries) => lbl_result.state = "NO-CONSTRAINTS"
        /\ lbl_result.state = "SAFE" =>
              (AnySupplied(entries) /\ FailingBounds(win.stats, entries) = {})

\* C7: the check reports VIOLATION exactly when a bound fails, and the list
\* then has one entry for each failing bound of X, Y and Z, with the observed
\* value and the limit, and no other entry.
C7_ViolationExactly ==
    Checked =>
        LET res == lbl_result.results
            F   == FailingBounds(win.stats, entries)
        IN  /\ (lbl_result.state = "VIOLATION") <=> (F # {})
            /\ {<<res[i].axis, res[i].kind>> : i \in 1..Len(res)} = F
            /\ Len(res) = Cardinality(F)
            /\ \A i \in 1..Len(res) :
                  /\ res[i].observed =
                        (IF res[i].kind = "Min" THEN win.stats[res[i].axis][1][1]
                         ELSE win.stats[res[i].axis][2][1])
                  /\ res[i].limit =
                        (IF res[i].kind = "Min" THEN entries[res[i].axis].min
                         ELSE entries[res[i].axis].max)

\* X in 3..7, Y = 7, no bound for Z: lower bounds 5 for X and Y, an upper
\* field of X that is no number: X Min alone is reported, Y is satisfied
C7_Witness ==
    /\ Checked
    /\ win.stats["X"] = <<Some(30), Some(70)>>
    /\ entries["X"] = [min |-> <<"5">>, max |-> <<"a", "b", "c">>]
    /\ entries["Y"] = [min |-> <<"5">>, max |-> <<>>]
    /\ lbl_result.state = "VIOLATION"
    /\ Len(lbl_result.results) = 1
    /\ lbl_result.results[1].axis = "X" /\ lbl_result.results[1].kind = "Min"

\* C8: every limit-check query compares the bounds with the global stats of
\* the program of the most recent analysis run.
C8_QueryUsesLatestRun ==
    [][(win.open /\ win' = win /\ blocks' = blocks
          /\ <<entries, lbl_result>>' # <<entries, lbl_result>>)
       => lbl_result' = check(get_global_stats(blocks), entries')]_vars

====
